---- MODULE Spec2Model ----
(***************************************************************************)
(* Page loads of the website as served by the page-rendering pipeline.     *)
(* The repository's own logic is the load handler of the route             *)
(* /docs/tutorials/nextjs (src/routes/docs/tutorials/nextjs/+page.ts),     *)
(* which throws redirect(303, '/docs/tutorials/nextjs/step-1').  The blog  *)
(* post route is a content page without a load handler.                    *)
(***************************************************************************)
EXTENDS Naturals, FiniteSets, Sequences, TLC

\* Number of page loads followed in one behaviour.
MaxLoads == 3

Loads == 1..MaxLoads

\* Routes of the site that the model navigates to.
Nextjs == "/docs/tutorials/nextjs"
Step1 == "/docs/tutorials/nextjs/step-1"
BlogPost == "/blog/post/how-to-optimize-your-appwrite-project"
Routes == {Nextjs, Step1, BlogPost}

\* The query string of the URL of a page load: the part of the load event
\* that a visitor controls.
Events == {"", "?step=2"}

NoRoute == "-"
NoEvent == "-"
NoSignal == [status |-> 0, location |-> "-"]

VARIABLES
    pc,       \* pc[r]: where page load r is: Idle, Loading, Redirected, Rendered, NotFound
    route,    \* route[r]: the route page load r asks for
    event,    \* event[r]: the load event handed to the load handler
    signal,   \* signal[r]: the redirect page load r ended with
    visited,  \* visited[r]: the routes whose redirects led to page load r
    peers     \* peers[r]: the page loads in flight when r's handler settled

vars == <<pc, route, event, signal, visited, peers>>

\* redirect(status, location) of @sveltejs/kit: the value the handler throws.
redirect(status, location) == [status |-> status, location |-> location]

\* A second load handler, bound to the blog post route.
LoadRoutes_extra == {Nextjs, BlogPost}

\* The routes whose page module exports a load handler.
LoadRoutes == {Nextjs}

\* The routes that have a content page without a load handler.
ContentRoutes == {BlogPost}

\* The handler with a permanent redirect.
load_permanent(ev) == [kind |-> "throw", value |-> redirect(301, Step1)]

\* The handler redirecting to its own route.
load_self(ev) == [kind |-> "throw", value |-> redirect(303, Nextjs)]

\* The handler reading the query string of the load event.
load_event(ev) ==
    [kind |-> "throw", value |-> redirect(303, IF ev = "" THEN Step1 ELSE BlogPost)]

\* The handler returning page data instead of throwing.
load_return(ev) == [kind |-> "return", value |-> NoSignal]

\* The handler awaiting a promise that never resolves.
load_pending(ev) == [kind |-> "pending", value |-> NoSignal]

\* The handler reading state shared with the other page loads in flight.
load_shared(ev) ==
    [kind |-> "throw",
     value |-> redirect(303, IF Cardinality({q \in Loads : pc[q] = "Loading"}) > 1
                               THEN BlogPost ELSE Step1)]

\* export const load: PageLoad = async () => { throw redirect(303, ...) }
\* The handler takes no parameter: the load event is ignored.
load(ev) == [kind |-> "throw", value |-> redirect(303, Step1)]

\* The redirect rules of the site: one per route with a load handler and
\* outcome of that handler.
RedirectRules ==
    {[source |-> rt, target |-> load(ev).value.location, status |-> load(ev).value.status] :
        rt \in LoadRoutes, ev \in {e \in Events : load(e).kind = "throw"}}

TypeOK ==
    /\ pc \in [Loads -> {"Idle", "Loading", "Redirected", "Rendered", "NotFound"}]
    /\ route \in [Loads -> Routes \cup {NoRoute}]
    /\ event \in [Loads -> Events \cup {NoEvent}]
    /\ signal \in [Loads -> [status : Nat, location : Routes \cup {"-"}]]
    /\ visited \in [Loads -> SUBSET Routes]
    /\ peers \in [Loads -> SUBSET Loads]

Init ==
    /\ pc = [r \in Loads |-> "Idle"]
    /\ route = [r \in Loads |-> NoRoute]
    /\ event = [r \in Loads |-> NoEvent]
    /\ signal = [r \in Loads |-> NoSignal]
    /\ visited = [r \in Loads |-> {}]
    /\ peers = [r \in Loads |-> {}]

\* Page loads are numbered in the order they start.
NextLoad(r) == pc[r] = "Idle" /\ \A q \in Loads : q < r => pc[q] # "Idle"

\* The pipeline's answer to a page load of route rt: a route with a load
\* handler has the handler invoked (the promise of the async function is
\* awaited), a content page is rendered, and a route with no page under
\* src/routes is answered by code outside this model, with a page or with
\* not-found.
Router(rt) ==
    IF rt \in LoadRoutes
      THEN {"Loading"}
      ELSE IF rt \in ContentRoutes THEN {"Rendered"} ELSE {"Rendered", "NotFound"}

\* A visitor opens a route: page load r starts.
Navigate(r) ==
    /\ NextLoad(r)
    /\ \E rt \in Routes, ev \in Events, out \in {"Loading", "Rendered", "NotFound"} :
         /\ out \in Router(rt)
         /\ route' = [route EXCEPT ![r] = rt]
         /\ event' = [event EXCEPT ![r] = ev]
         /\ pc' = [pc EXCEPT ![r] = out]
    /\ UNCHANGED <<signal, visited, peers>>

\* The promise of the load handler of page load r settles: a thrown redirect
\* becomes the redirect response, returned data is rendered.  A promise that
\* stays pending never settles.
Settle(r) ==
    /\ pc[r] = "Loading"
    /\ load(event[r]).kind # "pending"
    /\ IF load(event[r]).kind = "throw"
         THEN /\ pc' = [pc EXCEPT ![r] = "Redirected"]
              /\ signal' = [signal EXCEPT ![r] = load(event[r]).value]
         ELSE /\ pc' = [pc EXCEPT ![r] = "Rendered"]
              /\ UNCHANGED signal
    /\ peers' = [peers EXCEPT ![r] = {q \in Loads \ {r} : pc[q] = "Loading"}]
    /\ UNCHANGED <<route, event, visited>>

\* The client follows the Location of the redirect of page load r: a new
\* page load q of the destination route.
Follow(r, q) ==
    /\ pc[r] = "Redirected"
    /\ NextLoad(q)
    /\ \E ev \in Events, out \in {"Loading", "Rendered", "NotFound"} :
         /\ out \in Router(signal[r].location)
         /\ route' = [route EXCEPT ![q] = signal[r].location]
         /\ event' = [event EXCEPT ![q] = ev]
         /\ pc' = [pc EXCEPT ![q] = out]
    /\ visited' = [visited EXCEPT ![q] = visited[r] \cup {route[r]}]
    /\ UNCHANGED <<signal, peers>>

Next ==
    \/ \E r \in Loads : Navigate(r)
    \/ \E r \in Loads : Settle(r)
    \/ \E r, q \in Loads : Follow(r, q)

Spec == Init /\ [][Next]_vars

\* The event loop runs every settled promise's continuation.
FairSpec == Spec /\ \A r \in Loads : WF_vars(Settle(r))

----------------------------------------------------------------------------
\* Properties.

\* Page load r of route /docs/tutorials/nextjs has ended.
Settled(r) == route[r] = Nextjs /\ pc[r] \notin {"Idle", "Loading"}

\* C1: every page load of /docs/tutorials/nextjs that ends with a redirect
\* signal has the destination /docs/tutorials/nextjs/step-1 and the status
\* 303 (temporary), never 301 (permanent).
C1_SignalIsTemporaryStep1 ==
    \A r \in Loads :
        (route[r] = Nextjs /\ pc[r] = "Redirected") =>
            /\ signal[r].location = Step1
            /\ signal[r].status = 303
            /\ signal[r].status # 301

C1_Witness ==
    \E r \in Loads : route[r] = Nextjs /\ pc[r] = "Redirected" /\ signal[r] # NoSignal

\* C2: no redirect leads to the route it was issued for, and following
\* redirects never comes back to a route already redirected from.
C2_NoSelfRedirect ==
    \A r \in Loads :
        /\ pc[r] = "Redirected" => signal[r].location # route[r]
        /\ route[r] \notin visited[r]

C2_Witness ==
    \E r, q \in Loads :
        /\ pc[r] = "Redirected"
        /\ route[r] = Nextjs
        /\ visited[q] = {Nextjs}
        /\ route[q] = signal[r].location
        /\ pc[q] \in {"Rendered", "NotFound"}

\* C3: any two ended page loads of /docs/tutorials/nextjs, whatever their
\* load events and whatever happened before them, ended the same way with the
\* same signal.
C3_Deterministic ==
    \A r, q \in Loads :
        (Settled(r) /\ Settled(q)) => (pc[r] = pc[q] /\ signal[r] = signal[q])

C3_Witness ==
    \E r, q \in Loads :
        /\ r < q
        /\ Settled(r) /\ Settled(q)
        /\ event[r] # event[q]
        /\ signal[q] # NoSignal

\* C5: a page load of /docs/tutorials/nextjs only ever steps from Loading to
\* Redirected, stays Redirected, and never renders a page or a not-found
\* response.
C5_OnlyLoadingToRedirected ==
    [][\A r \in Loads :
         route'[r] = Nextjs =>
            /\ pc[r] = "Idle" => pc'[r] \in {"Idle", "Loading"}
            /\ pc[r] = "Loading" => pc'[r] \in {"Loading", "Redirected"}
            /\ pc[r] = "Redirected" => pc'[r] = "Redirected"
            /\ pc'[r] \notin {"Rendered", "NotFound"}]_vars

C5_Witness ==
    \E r, q \in Loads :
        /\ route[r] = Nextjs /\ pc[r] = "Redirected"
        /\ r < q /\ pc[q] # "Idle"

\* C6: every started page load of /docs/tutorials/nextjs eventually is
\* Redirected.
C6_Terminates ==
    \A r \in Loads :
        (route[r] = Nextjs /\ pc[r] = "Loading") ~> (pc[r] = "Redirected")

C6_Witness ==
    \E r \in Loads :
        route[r] = Nextjs /\ pc[r] = "Redirected" /\ visited[r] = {}

\* C7: when the handler of a page load of /docs/tutorials/nextjs settles, the
\* signal is (303, /docs/tutorials/nextjs/step-1) whichever other page loads
\* are in flight, and no other page load is changed by it.
C7_Interleaving ==
    [][\A r \in Loads :
         (route[r] = Nextjs /\ pc[r] = "Loading" /\ pc'[r] # "Loading") =>
            /\ signal'[r] = [status |-> 303, location |-> Step1]
            /\ \A q \in Loads \ {r} :
                 /\ pc'[q] = pc[q]
                 /\ signal'[q] = signal[q]
                 /\ route'[q] = route[q]
                 /\ event'[q] = event[q]]_vars

C7_Witness ==
    \E r, q \in Loads :
        /\ pc[r] = "Redirected" /\ route[r] = Nextjs
        /\ q \in peers[r] /\ q < r
        /\ pc[q] = "Redirected"
        /\ signal[r] = signal[q]

\* C8: the load handler is only ever invoked for the route
\* /docs/tutorials/nextjs, for which the one redirect rule of the site is
\* defined.
C8_OnlyMappedSource ==
    /\ \A r \in Loads :
         pc[r] \in {"Loading", "Redirected"} =>
            /\ route[r] = Nextjs
            /\ \E rule \in RedirectRules : rule.source = route[r]
    /\ Cardinality({<<route[r], signal[r].location>> :
                        r \in {q \in Loads : pc[q] = "Redirected"}}) <= 1

C8_Witness ==
    \E r, q \in Loads :
        /\ route[r] = Nextjs /\ pc[r] = "Redirected"
        /\ route[q] = BlogPost /\ pc[q] = "Rendered" /\ signal[q] = NoSignal

====
